---- MODULE Spec2Model ----
(***************************************************************************)
(* A model of 10ginit (src/10ginit.cpp, src/mdio.cpp): the command-line    *)
(* tool that queries / stores the MAC address EEPROM and initializes the   *)
(* 10GbE core (reset, MDIO PHY writes, MAC programming, release, verify).  *)
(*                                                                         *)
(* Strings are sequences of one-character strings, so that formatting and  *)
(* scanning are computed character by character as printf/scanf do.        *)
(***************************************************************************)
EXTENDS Integers, Sequences, FiniteSets, TLC

VARIABLES
    pc,               \* position of main() (a label per step of the code)
    action,           \* main(): the action selector (uninitialized at entry)
    optcount,         \* number of options getopt() has returned so far
    set_mac,          \* main(): optarg of -s
    gbe_registers,    \* "NULL" or "mapped"
    mdio_registers,   \* "NULL" or "mapped"
    mdio_reg_writes,  \* config.mdio_reg_writes
    valid_mac_prefix, \* config.valid_mac_address_prefix
    eeprom,           \* the 6 bytes held by the MAC EEPROM (hardware)
    macbuf,           \* main(): uint8_t macbuf[6]
    macbuf2,          \* main(): uint8_t macbuf2[6] of the store branch
    mdio_ops,         \* main(): the parsed list of MDIO operations
    opidx,            \* position of the range-for over mdio_ops
    call,             \* the frame of the running mdio_phy_write call
    regs,             \* main(): mac_high_regval, mac_low_regval and the readbacks
    gpio,             \* the reset line: UNREQUESTED, 0 (released) or 1 (asserted)
    hw,               \* the hardware accesses issued so far, in order (of the
                      \* status reads of a busy-poll, the one that showed the
                      \* bit clear; the others are counted in call)
    exit_code,        \* -1 while running, else the process exit code
    stderr,           \* the diagnostics written to stderr (fprintf, perror)
    probe             \* argument / result of a pure function under test

vars == <<pc, action, optcount, set_mac, gbe_registers, mdio_registers,
          mdio_reg_writes, valid_mac_prefix, eeprom, macbuf, macbuf2, mdio_ops,
          opidx, call, regs, gpio, hw, exit_code, stderr, probe>>

----------------------------------------------------------------------------
(* Bounds of the model *)

\* at most this many command-line options are handed to getopt()
MaxArgs == 2

----------------------------------------------------------------------------
(* Program constants *)

\* uint8_t holds 0 .. 255
UINT8_MOD == 256
\* (a uint32_t is held as its 32-bit pattern read in two's complement, so
\* that it fits the integers of the model checker: 0xffffffff is -1)

DO_NOTHING == 0
DO_QUERY == 1
DO_STORE == 2
DO_INITIALIZE == 3

GBE_REG_USR_MAC_HIGH == 0
GBE_REG_USR_MAC_LOW == 4
GBE_REG_SYSTEM_MAC_HIGH == 16
GBE_REG_SYSTEM_MAC_LOW == 20
GBE_REG_USR_MAC_CFG == 24

MDIO_OP_ADDR == 0
MDIO_OP_WR == 1
MDIO_OP_RD == 3
MDIO_ADDRESS1_OFFSET == 0
MDIO_ADDRESS2_OFFSET == 4
MDIO_WRITE_BUF_OFFSET == 8
MDIO_READ_BUF_OFFSET == 12
MDIO_CTRL_REG_OFFSET == 16
MDIO_CTRL_ENA_BIT == 8
MDIO_CTRL_REQ_BUSY_BIT == 1
MDIO_ADDRESS1_OP_MASK == 3
MDIO_ADDRESS1_OP_POSN == 10
MDIO_ADDRESS1_PORT_MASK == 31
MDIO_ADDRESS1_PORT_POSN == 5
MDIO_ADDRESS1_DEV_MASK == 31
MDIO_ADDRESS1_DEV_POSN == 0
MDIO_STATUS_POLL_LIMIT == 100
MDIO_STATUS_POLL_DELAY == 10000
GBE_RST_SETTLE_US == 1000000

\* the state of the reset line before gpiod_line_request_output: neither of
\* the values 0 and 1 that the program drives
UNREQUESTED == -1

----------------------------------------------------------------------------
(* Integer helpers: C operators on uint32_t values. A uint32_t value is  *)
(* held as its 32-bit pattern read in two's complement (-2^31 .. 2^31-1); *)
(* \div rounds down and % is never negative, so masks and right shifts of *)
(* a pattern are those of the unsigned value.                             *)

RECURSIVE Pow2(_)
Pow2(n) == IF n = 0 THEN 1 ELSE 2 * Pow2(n - 1)

\* a & m for a mask m = 2^k - 1
AndMask(a, m) == a % (m + 1)

\* (a >> n) & 0xff
ByteOf(a, n) == (a \div Pow2(n)) % 256

\* a << n in 32 bits, 0 <= n < 32
Shl32(a, n) ==
    IF n = 0 THEN a
    ELSE LET half == Pow2(31 - n)
             low == a % half
             top == (a \div half) % 2
         IN  low * Pow2(n) + (IF top = 1 THEN (0 - Pow2(30)) * 2 ELSE 0)

RECURSIVE NatOr(_, _)
\* a | b of two naturals, bit by bit
NatOr(a, b) ==
    IF a = 0 THEN b
    ELSE IF b = 0 THEN a
    ELSE (IF (a % 2 = 1) \/ (b % 2 = 1) THEN 1 ELSE 0) + 2 * NatOr(a \div 2, b \div 2)

\* the 32-bit pattern of the bytes b0 (least significant) .. b3
FromBytes(b0, b1, b2, b3) ==
    b0 + 256 * b1 + 65536 * b2 + 16777216 * (IF b3 >= 128 THEN b3 - 256 ELSE b3)

\* a | b in 32 bits
BitOr(a, b) ==
    FromBytes(NatOr(ByteOf(a, 0), ByteOf(b, 0)), NatOr(ByteOf(a, 8), ByteOf(b, 8)),
              NatOr(ByteOf(a, 16), ByteOf(b, 16)), NatOr(ByteOf(a, 24), ByteOf(b, 24)))

----------------------------------------------------------------------------
(* Characters *)

LowerHexDigits == <<"0","1","2","3","4","5","6","7","8","9","a","b","c","d","e","f">>
UpperHexDigits == <<"0","1","2","3","4","5","6","7","8","9","A","B","C","D","E","F">>
WhiteSpace == {" ", "\t", "\n"}

IsDigit(c, base) ==
    \E k \in 1..base : LowerHexDigits[k] = c \/ UpperHexDigits[k] = c
DigitValue(c) ==
    (CHOOSE k \in 1..16 : LowerHexDigits[k] = c \/ UpperHexDigits[k] = c) - 1

\* std::string::substr(pos, n), pos counted from 0
Substr(s, pos, n) ==
    SubSeq(s, pos + 1, IF pos + n > Len(s) THEN Len(s) ELSE pos + n)

----------------------------------------------------------------------------
(* printf: "%02hhx" and format_mac *)

RECURSIVE HexStr(_)
\* the digits printf's %x prints for n (no padding)
HexStr(n) ==
    IF n < 16 THEN <<LowerHexDigits[n + 1]>>
    ELSE HexStr(n \div 16) \o <<LowerHexDigits[(n % 16) + 1]>>

RECURSIVE ZeroPad(_, _)
ZeroPad(s, width) == IF Len(s) >= width THEN s ELSE ZeroPad(<<"0">> \o s, width)

Printf02hhx_NoPad(v) == HexStr(v % UINT8_MOD)
\* "%02hhx": the argument converted to unsigned char, at least 2 hex digits
Printf02hhx(v) == ZeroPad(HexStr(v % UINT8_MOD), 2)

\* the characters snprintf produces for the format of format_mac
SnprintfMac(m) ==
    Printf02hhx(m[1]) \o <<":">> \o Printf02hhx(m[2]) \o <<":">> \o
    Printf02hhx(m[3]) \o <<":">> \o Printf02hhx(m[4]) \o <<":">> \o
    Printf02hhx(m[5]) \o <<":">> \o Printf02hhx(m[6])

\* what stands for the std::runtime_error thrown by format_mac
FormatError == <<"Unable to format MAC address">>

format_mac(m) ==
    IF Len(SnprintfMac(m)) # 17 THEN FormatError ELSE SnprintfMac(m)

----------------------------------------------------------------------------
(* scanf *)

RECURSIVE SkipWs(_, _)
\* the position of the first non-white-space character of s at or after p
SkipWs(s, p) ==
    IF p <= Len(s) /\ s[p] \in WhiteSpace THEN SkipWs(s, p + 1) ELSE p

RECURSIVE DigitsEnd(_, _, _)
\* the position after the longest run of base-`base` digits of s from p
DigitsEnd(s, p, base) ==
    IF p <= Len(s) /\ IsDigit(s[p], base) THEN DigitsEnd(s, p + 1, base) ELSE p

RECURSIVE DigitsValue(_, _, _, _, _)
\* the value of the digits s[p .. q-1] in base `base`, after acc
DigitsValue(s, p, q, base, acc) ==
    IF p >= q THEN acc
    ELSE DigitsValue(s, p + 1, q, base, acc * base + DigitValue(s[p]))

\* One integer conversion (%d: base 10, %x: base 16) at position p, stored in
\* an unsigned object of `bits` bits (8 or 32): white space is skipped, then an
\* optional sign, for base 16 an optional 0x / 0X, then at least one digit.
\* (Items of up to 7 hexadecimal or 9 decimal digits: the magnitude is below
\* 2^31; "0x" with no digit after it is not among the inputs.)
\* st is "ok", "eof" (input ended before any character of the item) or
\* "mismatch".
ScanInt(s, p, base, bits) ==
    LET p1 == SkipWs(s, p)
        signed == p1 <= Len(s) /\ s[p1] \in {"+", "-"}
        neg == signed /\ s[p1] = "-"
        p2 == IF signed THEN p1 + 1 ELSE p1
        prefixed == /\ base = 16
                    /\ p2 + 1 <= Len(s)
                    /\ s[p2] = "0"
                    /\ s[p2 + 1] \in {"x", "X"}
        p3 == IF prefixed THEN p2 + 2 ELSE p2
        p4 == DigitsEnd(s, p3, base)
        mag == DigitsValue(s, p3, p4, base, 0)
    IN  IF p1 > Len(s) THEN [st |-> "eof", val |-> 0, pos |-> p1]
        ELSE IF p4 = p3 THEN [st |-> "mismatch", val |-> 0, pos |-> p3]
        ELSE [st |-> "ok",
              val |-> IF bits = 32
                      THEN (IF neg THEN 0 - mag ELSE mag)
                      ELSE (IF neg THEN 0 - mag ELSE mag) % Pow2(bits),
              pos |-> p4]

\* Directives of a scanf format
DWs == [t |-> "ws"]
DLit(c) == [t |-> "lit", c |-> c]
DInt(base, bits) == [t |-> "int", base |-> base, bits |-> bits]
DN == [t |-> "n"]

RECURSIVE ScanFrom(_, _, _, _, _, _)
\* sscanf from directive k of fmt, at position p of s, with the values
\* assigned so far and the value %n stored so far
ScanFrom(s, fmt, k, p, vals, n) ==
    LET stop == [ret |-> Len(vals), vals |-> vals, n |-> n]
        fail == [ret |-> IF Len(vals) = 0 THEN -1 ELSE Len(vals), vals |-> vals, n |-> n]
    IN  IF k > Len(fmt) THEN stop
        ELSE LET d == fmt[k] IN
            CASE d.t = "ws" -> ScanFrom(s, fmt, k + 1, SkipWs(s, p), vals, n)
              [] d.t = "n" -> ScanFrom(s, fmt, k + 1, p, vals, p - 1)
              [] d.t = "lit" ->
                    IF p > Len(s) THEN fail
                    ELSE IF s[p] # d.c THEN stop
                    ELSE ScanFrom(s, fmt, k + 1, p + 1, vals, n)
              [] d.t = "int" ->
                    LET r == ScanInt(s, p, d.base, d.bits) IN
                    IF r.st = "eof" THEN fail
                    ELSE IF r.st = "mismatch" THEN stop
                    ELSE ScanFrom(s, fmt, k + 1, r.pos, Append(vals, r.val), n)

\* sscanf(s, fmt, ...): ret is the return value (the number of values
\* assigned, or EOF = -1), vals the values assigned, n what %n stored (0, the
\* caller's initial value, when %n was not reached)
Sscanf(s, fmt) == ScanFrom(s, fmt, 1, 1, <<>>, 0)

\* "%hhx:%hhx:%hhx:%hhx:%hhx:%hhx"
MacScanFormat ==
    <<DInt(16, 8), DLit(":"), DInt(16, 8), DLit(":"),
      DInt(16, 8), DLit(":"), DInt(16, 8), DLit(":"),
      DInt(16, 8), DLit(":"), DInt(16, 8)>>

\* the sscanf of the store branch
SscanfMac(s) == Sscanf(s, MacScanFormat)

\* the buffer after that sscanf: the octets assigned, then those it had
ScannedInto(buf, vals) == [k \in 1..6 |-> IF k <= Len(vals) THEN vals[k] ELSE buf[k]]

\* " %d.%d:%d=%d %n": reg and val read as decimal
MdioScanFormat_Decimal ==
    <<DWs, DInt(10, 32), DLit("."), DInt(10, 32), DLit(":"),
      DInt(10, 32), DLit("="), DInt(10, 32), DWs, DN>>

\* " %d.%d:%x=%x %n"
MdioScanFormat ==
    <<DWs, DInt(10, 32), DLit("."), DInt(10, 32), DLit(":"),
      DInt(16, 32), DLit("="), DInt(16, 32), DWs, DN>>

MDIO_Operation(port, dev, reg, val) ==
    [port |-> port, dev |-> dev, reg |-> reg, val |-> val]

RECURSIVE ParseFrom(_, _, _)
\* the loop of parse_mdio_writes from position i, with ops collected so far
ParseFrom(str, i, ops) ==
    IF ~(i < Len(str)) THEN ops
    ELSE LET r == Sscanf(Substr(str, i, Len(str)), MdioScanFormat) IN
         IF r.ret # 4 THEN ops
         ELSE ParseFrom(str, i + r.n,
                        Append(ops, MDIO_Operation(r.vals[1], r.vals[2], r.vals[3], r.vals[4])))

parse_mdio_writes(mdio_config_str) == ParseFrom(mdio_config_str, 0, <<>>)

----------------------------------------------------------------------------
(* validate_mac_address *)

ZeroMacStr == <<"0","0",":","0","0",":","0","0",":","0","0",":","0","0",":","0","0">>
BcastMacStr == <<"f","f",":","f","f",":","f","f",":","f","f",":","f","f",":","f","f">>

validate_mac_address_NoMulticast(prefix, m) ==
    IF Len(prefix) = 0 THEN TRUE
    ELSE LET fmac == format_mac(m) IN
         IF fmac = ZeroMacStr THEN FALSE
         ELSE IF fmac = BcastMacStr THEN FALSE
         ELSE IF Substr(fmac, 0, Len(prefix)) # prefix THEN FALSE
         ELSE TRUE

validate_mac_address(prefix, m) ==
    IF Len(prefix) = 0 THEN TRUE
    ELSE LET fmac == format_mac(m) IN
         IF fmac = ZeroMacStr THEN FALSE
         ELSE IF fmac = BcastMacStr THEN FALSE
         ELSE IF m[1] % 2 = 1 THEN FALSE
         ELSE IF Substr(fmac, 0, Len(prefix)) # prefix THEN FALSE
         ELSE TRUE

----------------------------------------------------------------------------
(* Inputs the runs are drawn from *)

MacZero == <<0, 0, 0, 0, 0, 0>>
MacBroadcast == <<255, 255, 255, 255, 255, 255>>
\* 01:00:5e:00:00:01
MacMulticast == <<1, 0, 94, 0, 0, 1>>
\* aa:bb:cc:dd:ee:ff
MacGood == <<170, 187, 204, 221, 238, 255>>
\* 00:0a:35:01:02:83
MacOther == <<0, 10, 53, 1, 2, 131>>

MacSamples == {MacZero, MacBroadcast, MacMulticast, MacGood, MacOther}

PrefixAABB == <<"a","a",":","b","b">>
PrefixXilinx == <<"0","0",":","0","a",":","3","5">>
PrefixUpper == <<"A","A",":","B","B">>
PrefixLong == <<"a","a",":","b","b",":","c","c",":","d","d",":","e","e",":","f","f",":","0","0">>

\* values of config.valid_mac_address_prefix
Prefixes == {<<>>, PrefixAABB, PrefixXilinx}

TextShort == <<"a","a",":","b","b",":","c","c">>
TextUpper == <<"A","A",":","B","B",":","C","C",":","D","D",":","E","E",":","F","F">>
TextJunk == <<"z","z",":","z","z",":","z","z",":","z","z",":","z","z",":","z","z">>
TextLoose == <<"0","x","a",":","b",":","c",":","d",":","e",":"," ","-","f">>

\* values of the argument of -s
SetMacInputs ==
    {format_mac(m) : m \in MacSamples} \cup {<<>>, TextShort, TextUpper, TextJunk, TextLoose}

CfgTwoOps == <<"0",".","1",":","8","0","0","0","=","4","0","0","0"," ","0",".","1",":","8","0","0","1","=","0">>
CfgTruncated == <<"0",".","1",":","8","0","0","0","=","4","0","0","0"," ","g","a","r","b","a","g","e">>
CfgGarbage == <<"g","a","r","b","a","g","e">>

\* values of config.mdio_reg_writes
MdioConfigs == {<<>>, CfgTwoOps, CfgTruncated, CfgGarbage}

----------------------------------------------------------------------------
(* The state at entry of main() *)

\* The frame of a call of mdio_phy_write: its arguments, the loop variable i
\* of the running busy-poll, its return value, and what the running busy-poll
\* did so far: status reads made, reads that showed the busy bit, poll delays
NoCall == [fn |-> "none", port |-> 0, dev |-> 0, reg |-> 0, buf |-> 0,
           i |-> 0, reads |-> 0, busy |-> 0, delays |-> 0, ret |-> 0]

NoProbe == [fn |-> "none"]

\* One hardware access: dev is "gpio", "mdio", "gbe", "i2c" or "sleep"
Ev(dev, op, a, v, ok) == [dev |-> dev, op |-> op, a |-> a, v |-> v, ok |-> ok]

Usleep(us) == Ev("sleep", "usleep", 0, us, TRUE)

\* `action` is declared without an initializer and read by the first test of
\* the option loop: it starts at any value (4: a value outside the enum)
Init ==
    /\ pc = "getopt"
    /\ action \in {DO_NOTHING, DO_QUERY, DO_STORE, DO_INITIALIZE, 4}
    /\ optcount = 0
    /\ set_mac = <<>>
    /\ gbe_registers = "NULL"
    /\ mdio_registers = "NULL"
    /\ mdio_reg_writes = <<>>
    /\ valid_mac_prefix = <<>>
    /\ eeprom \in MacSamples
    /\ macbuf = MacZero
    /\ macbuf2 = MacZero
    /\ mdio_ops = <<>>
    /\ opidx = 1
    /\ call = NoCall
    /\ regs = [high |-> 0, low |-> 0, high2 |-> -1, low2 |-> -1]
    /\ gpio = UNREQUESTED
    /\ hw = <<>>
    /\ exit_code = -1
    /\ stderr = <<>>
    /\ probe = NoProbe

argsV == <<action, optcount, set_mac>>
resV == <<gbe_registers, mdio_registers, mdio_reg_writes, valid_mac_prefix>>
macV == <<eeprom, macbuf, macbuf2>>
mdioV == <<mdio_ops, opidx, call>>
hwV == <<regs, gpio, hw>>
exV == <<exit_code, stderr>>

\* return <code> from main(), after the diagnostic msg when it is not ""
Return(code, msg) ==
    /\ pc' = "exit"
    /\ exit_code' = code
    /\ stderr' = IF msg = "" THEN stderr ELSE Append(stderr, msg)

----------------------------------------------------------------------------
(* main(): argument parsing and resource acquisition *)

\* one iteration of the getopt loop with an action option -q, -s MAC or -i
GetoptAction ==
    /\ pc = "getopt"
    /\ optcount < MaxArgs
    /\ \E opt \in {"q", "s", "i"} : \E optarg \in SetMacInputs :
        /\ opt # "s" => optarg = <<>>
        /\ optcount' = optcount + 1
        /\ IF action # DO_NOTHING
           THEN Return(1, "usage") /\ UNCHANGED <<action, set_mac>>
           ELSE /\ action' = CASE opt = "q" -> DO_QUERY
                               [] opt = "s" -> DO_STORE
                               [] opt = "i" -> DO_INITIALIZE
                /\ set_mac' = IF opt = "s" THEN optarg ELSE set_mac
                /\ UNCHANGED <<pc, exV>>
    /\ UNCHANGED <<resV, macV, mdioV, hwV, probe>>

\* one iteration of the getopt loop with -c FILENAME
GetoptConfig ==
    /\ pc = "getopt"
    /\ optcount < MaxArgs
    /\ optcount' = optcount + 1
    /\ UNCHANGED <<pc, exV, action, set_mac, resV, macV, mdioV, hwV, probe>>

\* one iteration of the getopt loop with an unknown option
GetoptUnknown ==
    /\ pc = "getopt"
    /\ optcount < MaxArgs
    /\ optcount' = optcount + 1
    /\ Return(1, "usage")
    /\ UNCHANGED <<action, set_mac, resV, macV, mdioV, hwV, probe>>

\* getopt returns -1: the test of line 146, then the configuration is loaded
\* (the option loop is over: its counter is not kept)
GetoptEnd ==
    /\ pc = "getopt"
    /\ IF action = DO_NOTHING
       THEN Return(1, "usage")
       ELSE pc' = "map_gbe" /\ UNCHANGED exV
    /\ optcount' = 0
    /\ UNCHANGED <<action, set_mac, resV, macV, mdioV, hwV, probe>>

\* Map 10GbE UIO registers (lines 156-162)
MapGbe ==
    /\ pc = "map_gbe"
    /\ \E ok \in BOOLEAN :
        IF ok
        THEN gbe_registers' = "mapped" /\ pc' = "map_mdio" /\ UNCHANGED exV
        ELSE Return(0, "Mapping GBE UIO device") /\ UNCHANGED gbe_registers
    /\ UNCHANGED <<argsV, mdio_registers, mdio_reg_writes, valid_mac_prefix,
                   macV, mdioV, hwV, probe>>

\* the MDIO region is never mapped
NeedsMdioRegion_Never(cfg) == FALSE

\* line 170: mdio_reg_writes.size()
NeedsMdioRegion(cfg) == Len(cfg) # 0

\* Map MDIO UIO registers (lines 166-175); the region is mapped only when
\* config.mdio_reg_writes is not empty
MapMdio ==
    /\ pc = "map_mdio"
    /\ \E cfg \in MdioConfigs : \E ok \in BOOLEAN :
        /\ mdio_reg_writes' = cfg
        /\ IF NeedsMdioRegion(cfg)
           THEN IF ok
                THEN mdio_registers' = "mapped" /\ pc' = "open_gpio" /\ UNCHANGED exV
                ELSE Return(0, "Mapping MDIO UIO device") /\ UNCHANGED mdio_registers
           ELSE ok /\ pc' = "open_gpio" /\ UNCHANGED <<exV, mdio_registers>>
    /\ UNCHANGED <<argsV, gbe_registers, valid_mac_prefix, macV, mdioV, hwV, probe>>

\* Open reset GPIO (lines 179-197): realpath, gpiod_chip_open,
\* gpiod_chip_get_line; each failure returns 1
OpenGpio ==
    /\ pc = "open_gpio"
    /\ \E r \in {"ok", "unable to resolve reset gpio chip path",
                "error opening reset gpio chip", "error opening reset gpio line"} :
        IF r = "ok" THEN pc' = "open_eeprom" /\ UNCHANGED exV ELSE Return(1, r)
    /\ UNCHANGED <<argsV, resV, macV, mdioV, hwV, probe>>

\* Open MAC EEPROM I2C (lines 201-211)
OpenEeprom ==
    /\ pc = "open_eeprom"
    /\ \E prefix \in Prefixes : \E ok \in BOOLEAN :
        /\ valid_mac_prefix' = prefix
        /\ IF ok THEN pc' = "read_mac" /\ UNCHANGED exV ELSE Return(1, "error opening mac eeprom")
    /\ UNCHANGED <<argsV, gbe_registers, mdio_registers, mdio_reg_writes,
                   macV, mdioV, hwV, probe>>

\* what i2c_read returns: the 6 bytes asked for, a short read, an error
I2cReturns == {6, 3, -1}

\* the bytes of the device that a read returning n brought
Transferred(bytes, n) == SubSeq(bytes, 1, IF n < 0 THEN 0 ELSE n)

\* the buffer after a read returning n: its first n bytes are the device's
I2cInto(buf, bytes, n) == [k \in 1..6 |-> IF k <= n THEN bytes[k] ELSE buf[k]]

\* a read fails only when the transfer reports an error
ReadFailed_OnlyErrors(n) == n < 0

\* i2c_read(...) != 6
ReadFailed(n) == n # 6

\* Read the MAC in advance (lines 216-220): i2c_read returns 6 and the
\* EEPROM's bytes, or something else
ReadMac ==
    /\ pc = "read_mac"
    /\ \E n \in I2cReturns :
        /\ hw' = Append(hw, Ev("i2c", "r", 6, Transferred(eeprom, n), n = 6))
        /\ macbuf' = I2cInto(macbuf, eeprom, n)
        /\ IF ReadFailed(n)
           THEN Return(1, "error reading mac eeprom")
           ELSE pc' = "dispatch" /\ UNCHANGED exV
    /\ UNCHANGED <<argsV, resV, eeprom, macbuf2, mdioV, regs, gpio, probe>>

\* action is none of DO_QUERY, DO_STORE, DO_INITIALIZE: return 0 (line 356)
NoAction ==
    /\ pc = "dispatch"
    /\ action \notin {DO_QUERY, DO_STORE, DO_INITIALIZE}
    /\ Return(0, "")
    /\ UNCHANGED <<argsV, resV, macV, mdioV, hwV, probe>>

----------------------------------------------------------------------------
(* main(): query and store *)

\* lines 222-226
Query ==
    /\ pc = "dispatch"
    /\ action = DO_QUERY
    /\ IF format_mac(macbuf) = FormatError
       THEN pc' = "terminate" /\ UNCHANGED exV
       ELSE IF ~validate_mac_address(valid_mac_prefix, macbuf)
            THEN Return(1, "MAC address is not valid")
            ELSE Return(0, "")
    /\ UNCHANGED <<argsV, resV, macV, mdioV, hwV, probe>>

\* lines 228-232: sscanf into macbuf2 (the octets assigned before a failed
\* conversion stay assigned)
StoreParse ==
    /\ pc = "dispatch"
    /\ action = DO_STORE
    /\ macbuf2' = ScannedInto(macbuf2, SscanfMac(set_mac).vals)
    /\ IF SscanfMac(set_mac).ret # 6
       THEN Return(1, "Unable to parse input MAC address.")
       ELSE pc' = "store_validate" /\ UNCHANGED exV
    /\ UNCHANGED <<argsV, resV, eeprom, macbuf, mdioV, hwV, probe>>

\* the EEPROM written before the address is validated
StoreValidate_WriteFirst ==
    /\ pc = "store_validate"
    /\ hw' = Append(hw, Ev("i2c", "w", 6, macbuf2, TRUE))
    /\ eeprom' = macbuf2
    /\ IF ~validate_mac_address(valid_mac_prefix, macbuf2)
       THEN Return(1, "MAC address is not valid")
       ELSE pc' = "store_readback" /\ UNCHANGED exV
    /\ UNCHANGED <<argsV, resV, macbuf, macbuf2, mdioV, regs, gpio, probe>>

\* lines 233-234
StoreValidate ==
    /\ pc = "store_validate"
    /\ IF ~validate_mac_address(valid_mac_prefix, macbuf2)
       THEN Return(1, "MAC address is not valid")
       ELSE pc' = "store_write" /\ UNCHANGED exV
    /\ UNCHANGED <<argsV, resV, macV, mdioV, hwV, probe>>

\* lines 235-239: i2c_write, then sleep(1). A transfer of 6 bytes leaves the
\* EEPROM holding them, or what it held (a write-protected part); a failed
\* transfer may or may not have changed it.
StoreWrite ==
    /\ pc = "store_write"
    /\ \E n \in {6, 3, -1} : \E stored \in {macbuf2, eeprom} :
        /\ eeprom' = stored
        /\ hw' = IF n = 6
                 THEN hw \o <<Ev("i2c", "w", 6, macbuf2, TRUE), Usleep(1000000)>>
                 ELSE Append(hw, Ev("i2c", "w", 6, macbuf2, FALSE))
        /\ IF n # 6 THEN Return(1, "error writing mac eeprom") ELSE pc' = "store_readback" /\ UNCHANGED exV
    /\ UNCHANGED <<argsV, resV, macbuf, macbuf2, mdioV, regs, gpio, probe>>

\* lines 240-243
StoreReadback ==
    /\ pc = "store_readback"
    /\ \E n \in I2cReturns :
        /\ hw' = Append(hw, Ev("i2c", "r", 6, Transferred(eeprom, n), n = 6))
        /\ macbuf' = I2cInto(macbuf, eeprom, n)
        /\ IF ReadFailed(n)
           THEN Return(1, "error reading mac eeprom to confirm")
           ELSE pc' = "store_compare" /\ UNCHANGED exV
    /\ UNCHANGED <<argsV, resV, eeprom, macbuf2, mdioV, regs, gpio, probe>>

memcmp_NoCompare(a, b, n) == 0
\* memcmp(a, b, n): 0 when the first n bytes are equal
memcmp(a, b, n) == IF \A k \in 1..n : a[k] = b[k] THEN 0 ELSE 1

\* lines 244-248, 356
StoreCompare ==
    /\ pc = "store_compare"
    /\ IF memcmp(macbuf, macbuf2, 6) # 0 THEN Return(1, "MAC address read back does not match MAC address stored.")
       ELSE Return(0, "")
    /\ UNCHANGED <<argsV, resV, macV, mdioV, hwV, probe>>

----------------------------------------------------------------------------
(* mdio.cpp: mdio_phy_addr and mdio_phy_write, one action per register access *)

\* MDIO_ADDR1(OPCODE, PORT, DEVICE)
\* the three fields added without their masks
MDIO_ADDR1_NoMask(opcode, port, device) ==
    Shl32(opcode, MDIO_ADDRESS1_OP_POSN)
    + Shl32(port, MDIO_ADDRESS1_PORT_POSN)
    + Shl32(device, MDIO_ADDRESS1_DEV_POSN)

MDIO_ADDR1(opcode, port, device) ==
    Shl32(AndMask(opcode, MDIO_ADDRESS1_OP_MASK), MDIO_ADDRESS1_OP_POSN)
    + Shl32(AndMask(port, MDIO_ADDRESS1_PORT_MASK), MDIO_ADDRESS1_PORT_POSN)
    + Shl32(AndMask(device, MDIO_ADDRESS1_DEV_MASK), MDIO_ADDRESS1_DEV_POSN)

\* MDIO_CTRL_ENA_BIT | MDIO_CTRL_REQ_BUSY_BIT
MdioStartWord == BitOr(MDIO_CTRL_ENA_BIT, MDIO_CTRL_REQ_BUSY_BIT)

\* what a read of the control register can return: idle or busy
MdioStatusValues == {MDIO_CTRL_ENA_BIT, MdioStartWord}

\* easymem_safewrite32 on the MDIO region: on success go to `to`
\* (after usleep(us) when us > 0), on failure return -1 from the call
MdioRegWrite(to, off, val, us) ==
    /\ \E ok \in BOOLEAN :
        /\ hw' = IF ok /\ us > 0
                 THEN hw \o <<Ev("mdio", "w", off, val, TRUE), Usleep(us)>>
                 ELSE Append(hw, Ev("mdio", "w", off, val, ok))
        /\ IF ok
           THEN pc' = to /\ UNCHANGED call
           ELSE pc' = "mdio_ret" /\ call' = [call EXCEPT !.ret = -1]
    /\ UNCHANGED <<argsV, resV, macV, mdio_ops, opidx, regs, gpio, exV, probe>>

\* the busy-poll goes on for as long as the bit is set
PollContinues_Forever(i) == TRUE

PollContinues_OneMore(i) == i <= MDIO_STATUS_POLL_LIMIT
\* the loop condition i < MDIO_STATUS_POLL_LIMIT
PollContinues(i) == i < MDIO_STATUS_POLL_LIMIT

\* One iteration of "Wait for the BUSY bit to clear" (pc `from`): the status
\* read fails (return -1), shows the bit clear (break), or shows it set
\* (usleep(MDIO_STATUS_POLL_DELAY), i++, and the loop condition is tested)
MdioPoll(from, to) ==
    /\ PollContinues(call.i)
    /\ \/ /\ call' = [call EXCEPT !.reads = @ + 1, !.ret = -1]
          /\ pc' = "mdio_ret"
          /\ UNCHANGED hw
       \/ \E regval \in MdioStatusValues :
            IF AndMask(regval, MDIO_CTRL_REQ_BUSY_BIT) = 0
            THEN /\ call' = [call EXCEPT !.reads = @ + 1]
                 /\ hw' = Append(hw, Ev("mdio", "r", MDIO_CTRL_REG_OFFSET, regval, TRUE))
                 /\ pc' = to
            ELSE /\ call' = [call EXCEPT !.reads = @ + 1, !.busy = @ + 1,
                                         !.delays = @ + 1, !.i = @ + 1]
                 /\ pc' = IF PollContinues(call.i + 1) THEN from ELSE to
                 /\ UNCHANGED hw
    /\ UNCHANGED <<argsV, resV, macV, mdio_ops, opidx, regs, gpio, exV, probe>>

\* lines 57-60, 62
MdioAddr1 ==
    /\ pc = "mdio_addr1"
    /\ MdioRegWrite("mdio_addr2", MDIO_ADDRESS1_OFFSET,
                    MDIO_ADDR1(MDIO_OP_ADDR, call.port, call.dev), 10000)
\* lines 66-69
MdioAddr2 ==
    /\ pc = "mdio_addr2"
    /\ MdioRegWrite("mdio_addr_start", MDIO_ADDRESS2_OFFSET, call.reg, 10000)
\* lines 71-74
MdioAddrStart ==
    /\ pc = "mdio_addr_start"
    /\ MdioRegWrite("mdio_addr_poll", MDIO_CTRL_REG_OFFSET,
                    MdioStartWord, 10000)
\* lines 78-84
MdioAddrPoll ==
    /\ pc = "mdio_addr_poll"
    /\ MdioPoll("mdio_addr_poll", "mdio_addr_check")

\* lines 85-91, 101-102 and 147-148: mdio_phy_addr returns -1 on timeout,
\* else 0 and its caller, mdio_phy_write or mdio_phy_read, goes on (the locals
\* of mdio_phy_addr are gone)
MdioAddrCheck ==
    /\ pc = "mdio_addr_check"
    /\ IF call.i = MDIO_STATUS_POLL_LIMIT
       THEN pc' = "mdio_ret" /\ call' = [call EXCEPT !.ret = -1]
       ELSE /\ pc' = IF call.fn = "read" THEN "mdio_rd_op" ELSE "mdio_wr_op"
            /\ call' = [call EXCEPT !.i = 0, !.reads = 0, !.busy = 0, !.delays = 0]
    /\ UNCHANGED <<argsV, resV, macV, mdio_ops, opidx, hwV, exV, probe>>

\* lines 109-111
MdioWrOp ==
    /\ pc = "mdio_wr_op"
    /\ MdioRegWrite("mdio_wr_buf", MDIO_ADDRESS1_OFFSET,
                    MDIO_ADDR1(MDIO_OP_WR, call.port, call.dev), 0)
\* lines 114-115
MdioWrBuf ==
    /\ pc = "mdio_wr_buf"
    /\ MdioRegWrite("mdio_wr_start", MDIO_WRITE_BUF_OFFSET, call.buf, 0)
\* lines 118-120
MdioWrStart ==
    /\ pc = "mdio_wr_start"
    /\ MdioRegWrite("mdio_wr_poll", MDIO_CTRL_REG_OFFSET, MdioStartWord, 0)
\* lines 124-130
MdioWrPoll ==
    /\ pc = "mdio_wr_poll"
    /\ MdioPoll("mdio_wr_poll", "mdio_wr_check")

\* lines 131-136
MdioWrCheck ==
    /\ pc = "mdio_wr_check"
    /\ pc' = "mdio_ret"
    /\ call' = [call EXCEPT !.ret = IF call.i = MDIO_STATUS_POLL_LIMIT THEN -1 ELSE 0]
    /\ UNCHANGED <<argsV, resV, macV, mdio_ops, opidx, hwV, exV, probe>>

\* mdio_phy_read, lines 155-157
MdioRdOp ==
    /\ pc = "mdio_rd_op"
    /\ MdioRegWrite("mdio_rd_start", MDIO_ADDRESS1_OFFSET,
                    MDIO_ADDR1(MDIO_OP_RD, call.port, call.dev), 0)
\* lines 160-162
MdioRdStart ==
    /\ pc = "mdio_rd_start"
    /\ MdioRegWrite("mdio_rd_poll", MDIO_CTRL_REG_OFFSET, MdioStartWord, 0)
\* lines 166-172
MdioRdPoll ==
    /\ pc = "mdio_rd_poll"
    /\ MdioPoll("mdio_rd_poll", "mdio_rd_check")

\* the read buffer is read whether or not the poll timed out
MdioRdCheck_ReadAnyway ==
    /\ pc = "mdio_rd_check"
    /\ pc' = "mdio_rd_buf"
    /\ UNCHANGED <<argsV, resV, macV, mdioV, hwV, exV, probe>>

\* lines 173-174
MdioRdCheck ==
    /\ pc = "mdio_rd_check"
    /\ IF call.i = MDIO_STATUS_POLL_LIMIT
       THEN pc' = "mdio_ret" /\ call' = [call EXCEPT !.ret = -1]
       ELSE pc' = "mdio_rd_buf" /\ UNCHANGED call
    /\ UNCHANGED <<argsV, resV, macV, mdio_ops, opidx, hwV, exV, probe>>

\* what a read of the read buffer can return
MdioReadValues == {0, 16384}

\* lines 177-182: the read buffer is read into *pReadBuf, which keeps its
\* value when the read fails
MdioRdBuf ==
    /\ pc = "mdio_rd_buf"
    /\ \E ok \in BOOLEAN : \E v \in MdioReadValues :
        /\ ~ok => v = 0
        /\ call' = [call EXCEPT !.buf = IF ok THEN v ELSE @,
                                !.ret = IF ok THEN 0 ELSE -1]
        /\ hw' = Append(hw, Ev("mdio", "r", MDIO_READ_BUF_OFFSET, call'.buf, ok))
    /\ pc' = "mdio_ret"
    /\ UNCHANGED <<argsV, resV, macV, mdio_ops, opidx, regs, gpio, exV, probe>>

----------------------------------------------------------------------------
(* main(): initialize *)

\* lines 251-254: gpiod_line_request_output(gpio_line_reset, "10ginit", 1)
\* the reset line requested whatever the action
InitRequest_AnyAction ==
    /\ pc = "dispatch"
    /\ \E ok \in BOOLEAN :
        /\ hw' = Append(hw, Ev("gpio", "request", 0, 1, ok))
        /\ IF ok
           THEN gpio' = 1 /\ pc' = "init_assert" /\ UNCHANGED exV
           ELSE Return(1, "unable to access reset gpio") /\ UNCHANGED gpio
    /\ UNCHANGED <<argsV, resV, macV, mdioV, regs, probe>>

InitRequest ==
    /\ pc = "dispatch"
    /\ action = DO_INITIALIZE
    /\ \E ok \in BOOLEAN :
        /\ hw' = Append(hw, Ev("gpio", "request", 0, 1, ok))
        /\ IF ok
           THEN gpio' = 1 /\ pc' = "init_assert" /\ UNCHANGED exV
           ELSE Return(1, "unable to access reset gpio") /\ UNCHANGED gpio
    /\ UNCHANGED <<argsV, resV, macV, mdioV, regs, probe>>

\* gpiod_line_set_value(gpio_line_reset, v); on success
\* usleep(us) when us > 0 and go to `to`, on failure perror(msg) and return 1
GpioSet(to, v, us, msg) ==
    /\ \E ok \in BOOLEAN :
        /\ hw' = IF ok /\ us > 0
                 THEN hw \o <<Ev("gpio", "set", 0, v, TRUE), Usleep(us)>>
                 ELSE Append(hw, Ev("gpio", "set", 0, v, ok))
        /\ IF ok
           THEN gpio' = v /\ pc' = to /\ UNCHANGED exV
           ELSE Return(1, msg) /\ UNCHANGED gpio
    /\ UNCHANGED <<argsV, resV, macV, mdioV, regs, probe>>

\* lines 255-259
InitAssert ==
    /\ pc = "init_assert"
    /\ GpioSet("init_parse", 1, GBE_RST_SETTLE_US, "unable to assert reset gpio")

\* line 263
InitParseMdio ==
    /\ pc = "init_parse"
    /\ mdio_ops' = parse_mdio_writes(mdio_reg_writes)
    /\ opidx' = 1
    /\ pc' = "mdio_loop"
    /\ UNCHANGED <<argsV, resV, macV, call, hwV, exV, probe>>

\* lines 264, 273-274: the next operation of the list is handed to
\* mdio_phy_write
MdioLoopCall ==
    /\ pc = "mdio_loop"
    /\ opidx <= Len(mdio_ops)
    /\ LET op == mdio_ops[opidx] IN
        call' = [fn |-> "write", port |-> op.port, dev |-> op.dev, reg |-> op.reg,
                 buf |-> op.val, i |-> 0, reads |-> 0, busy |-> 0, delays |-> 0,
                 ret |-> 0]
    /\ pc' = "mdio_addr1"
    /\ UNCHANGED <<argsV, resV, macV, mdio_ops, opidx, hwV, exV, probe>>

AfterMdioWrite_Ignore(ret) == "next"
\* line 274: a negative return value ends the run
AfterMdioWrite(ret) == IF ret < 0 THEN "fail" ELSE "next"

NextOp_Skip(k) == k + 2
\* the range-for advances to the next operation
NextOp(k) == k + 1

\* lines 274-277: mdio_phy_write returned a negative value
MdioFailed ==
    /\ pc = "mdio_ret"
    /\ AfterMdioWrite(call.ret) = "fail"
    /\ Return(1, "Failed to write MDIO register.")
    /\ UNCHANGED <<argsV, resV, macV, mdioV, hwV, probe>>

\* lines 274, 285: mdio_phy_write returned 0
MdioOk ==
    /\ pc = "mdio_ret"
    /\ AfterMdioWrite(call.ret) = "next"
    /\ opidx' = NextOp(opidx)
    /\ call' = NoCall
    /\ pc' = "mdio_loop"
    /\ UNCHANGED <<argsV, resV, macV, mdio_ops, hwV, exV, probe>>

\* line 264: the list is exhausted
MdioLoopDone ==
    /\ pc = "mdio_loop"
    /\ opidx > Len(mdio_ops)
    /\ pc' = "init_validate"
    /\ UNCHANGED <<argsV, resV, macV, mdioV, hwV, exV, probe>>

\* lines 289-294
InitValidate_Proceed ==
    /\ pc = "init_validate"
    /\ pc' = "init_write_high"
    /\ UNCHANGED <<argsV, resV, macV, mdioV, hwV, exV, probe>>

InitValidate ==
    /\ pc = "init_validate"
    /\ IF format_mac(macbuf) = FormatError
       THEN pc' = "terminate" /\ UNCHANGED exV
       ELSE IF ~validate_mac_address(valid_mac_prefix, macbuf)
            THEN /\ pc' = "exit"
                 /\ exit_code' = 1
                 /\ stderr' = stderr \o <<"MAC address is not valid",
                                         "Leaving 10GbE core in reset.">>
            ELSE pc' = "init_write_high" /\ UNCHANGED exV
    /\ UNCHANGED <<argsV, resV, macV, mdioV, hwV, probe>>

MacHighRegval_BigEndian(m) ==
    BitOr(BitOr(BitOr(BitOr(0, Shl32(m[1], 24)), Shl32(m[2], 16)), Shl32(m[3], 8)),
          Shl32(m[4], 0))
\* lines 297, 299-300: mac_high_regval |= (macbuf[i] << (8 * i)), i = 0 .. 3
MacHighRegval(m) ==
    BitOr(BitOr(BitOr(BitOr(0, Shl32(m[1], 0)), Shl32(m[2], 8)), Shl32(m[3], 16)),
          Shl32(m[4], 24))

\* lines 298, 301-302: mac_low_regval |= (macbuf[i] << (8 * (i - 4))), i = 4, 5
MacLowRegval(m) == BitOr(BitOr(0, Shl32(m[5], 0)), Shl32(m[6], 8))

\* easymem_safewrite32 on the 10GbE region: on success go to `to` (after
\* usleep(us) when us > 0), on failure return 1
GbeRegWrite(to, off, val, us, msg) ==
    /\ \E ok \in BOOLEAN :
        /\ hw' = IF ok /\ us > 0
                 THEN hw \o <<Ev("gbe", "w", off, val, TRUE), Usleep(us)>>
                 ELSE Append(hw, Ev("gbe", "w", off, val, ok))
        /\ IF ok THEN pc' = to /\ UNCHANGED exV ELSE Return(1, msg)

\* lines 297-307
InitWriteHigh ==
    /\ pc = "init_write_high"
    /\ regs' = [regs EXCEPT !.high = MacHighRegval(macbuf), !.low = MacLowRegval(macbuf)]
    /\ GbeRegWrite("init_write_low", GBE_REG_USR_MAC_HIGH, MacHighRegval(macbuf), 0,
                   "Unable to write GBE_REG_USR_MAC_HIGH.")
    /\ UNCHANGED <<argsV, resV, macV, mdioV, gpio, probe>>

\* USR_MAC_LOW written with no settle interval after it
InitWriteLow_NoSettle ==
    /\ pc = "init_write_low"
    /\ GbeRegWrite("init_write_cfg", GBE_REG_USR_MAC_LOW, regs.low, 0,
                   "Unable to write GBE_REG_USR_MAC_LOW.")
    /\ UNCHANGED <<argsV, resV, macV, mdioV, regs, gpio, probe>>

\* lines 308-312
InitWriteLow ==
    /\ pc = "init_write_low"
    /\ GbeRegWrite("init_write_cfg", GBE_REG_USR_MAC_LOW, regs.low, GBE_RST_SETTLE_US,
                   "Unable to write GBE_REG_USR_MAC_LOW.")
    /\ UNCHANGED <<argsV, resV, macV, mdioV, regs, gpio, probe>>

\* lines 313-317
InitWriteCfg ==
    /\ pc = "init_write_cfg"
    /\ GbeRegWrite("init_release", GBE_REG_USR_MAC_CFG, 1, 0,
                   "Unable to write GBE_REG_USR_MAC_CFG.")
    /\ UNCHANGED <<argsV, resV, macV, mdioV, regs, gpio, probe>>

\* lines 319-323
InitRelease ==
    /\ pc = "init_release"
    /\ GpioSet("init_read_high", 0, GBE_RST_SETTLE_US, "unable to release reset gpio")

\* v with its lowest bit inverted
FlipBit0(v) == IF v % 2 = 0 THEN v + 1 ELSE v - 1

\* what the core can answer for a register programmed with v: v, v with one
\* bit wrong, v with 0xabcd in its upper 16 bits, or all ones
ReadbackValues(v) ==
    {v, FlipBit0(v), FromBytes(ByteOf(v, 0), ByteOf(v, 8), 205, 171), -1}

\* lines 325-330
InitReadHigh ==
    /\ pc = "init_read_high"
    /\ \E ok \in BOOLEAN : \E v \in ReadbackValues(regs.high) :
        /\ ~ok => v = regs.high2
        /\ hw' = Append(hw, Ev("gbe", "r", GBE_REG_SYSTEM_MAC_HIGH, v, ok))
        /\ regs' = [regs EXCEPT !.high2 = v]
        /\ IF ok THEN pc' = "init_read_low" /\ UNCHANGED exV ELSE Return(1, "Unable to read GBE_REG_USR_SYSTEM_HIGH.")
    /\ UNCHANGED <<argsV, resV, macV, mdioV, gpio, probe>>

\* lines 331-334
InitReadLow ==
    /\ pc = "init_read_low"
    /\ \E ok \in BOOLEAN : \E v \in ReadbackValues(regs.low) :
        /\ ~ok => v = regs.low2
        /\ hw' = Append(hw, Ev("gbe", "r", GBE_REG_SYSTEM_MAC_LOW, v, ok))
        /\ regs' = [regs EXCEPT !.low2 = v]
        /\ IF ok THEN pc' = "init_compare" /\ UNCHANGED exV ELSE Return(1, "Unable to read GBE_REG_USR_SYSTEM_LOW.")
    /\ UNCHANGED <<argsV, resV, macV, mdioV, gpio, probe>>

ReadbackMismatch_NoMask(r) ==
    r.high # r.high2 \/ r.low # r.low2
\* line 336
ReadbackMismatch(r) ==
    r.high # r.high2 \/ AndMask(r.low, 65535) # AndMask(r.low2, 65535)

\* lines 336-345 and 354-356: on a mismatch the read back address is decoded
\* and reported, then usleep(1000000) and a read of SYSTEM_MAC_LOW
InitCompare ==
    /\ pc = "init_compare"
    /\ IF ReadbackMismatch(regs)
       THEN /\ macbuf2' = <<ByteOf(regs.high2, 0), ByteOf(regs.high2, 8),
                            ByteOf(regs.high2, 16), ByteOf(regs.high2, 24),
                            ByteOf(regs.low2, 0), ByteOf(regs.low2, 8)>>
            /\ hw' = hw \o <<Usleep(1000000),
                             Ev("gbe", "r", GBE_REG_SYSTEM_MAC_LOW, regs.low2, TRUE)>>
            /\ pc' = "init_rollback"
            /\ stderr' = stderr \o <<"10GbE core configuration failed",
                                    "Putting core back into reset.">>
            /\ UNCHANGED exit_code
       ELSE Return(0, "") /\ UNCHANGED <<macbuf2, hw>>
    /\ UNCHANGED <<argsV, resV, eeprom, macbuf, mdioV, regs, gpio, probe>>

\* lines 347-352: the reset line is driven to 1, and 1 is returned either way
InitRollback ==
    /\ pc = "init_rollback"
    /\ \E ok \in BOOLEAN :
        /\ hw' = Append(hw, Ev("gpio", "set", 0, 1, ok))
        /\ gpio' = IF ok THEN 1 ELSE gpio
        /\ stderr' = IF ok THEN stderr ELSE Append(stderr, "unable to assert reset gpio")
    /\ pc' = "exit"
    /\ exit_code' = 1
    /\ UNCHANGED <<argsV, resV, macV, mdioV, regs, probe>>

----------------------------------------------------------------------------
(* The program *)

Next ==
    \/ GetoptAction \/ GetoptConfig \/ GetoptUnknown \/ GetoptEnd
    \/ MapGbe \/ MapMdio \/ OpenGpio \/ OpenEeprom \/ ReadMac \/ NoAction
    \/ Query \/ StoreParse \/ StoreValidate \/ StoreWrite \/ StoreReadback \/ StoreCompare
    \/ InitRequest \/ InitAssert \/ InitParseMdio
    \/ MdioLoopCall \/ MdioLoopDone \/ MdioFailed \/ MdioOk
    \/ MdioAddr1 \/ MdioAddr2 \/ MdioAddrStart \/ MdioAddrPoll \/ MdioAddrCheck
    \/ MdioWrOp \/ MdioWrBuf \/ MdioWrStart \/ MdioWrPoll \/ MdioWrCheck
    \/ InitValidate \/ InitWriteHigh \/ InitWriteLow \/ InitWriteCfg \/ InitRelease
    \/ InitReadHigh \/ InitReadLow \/ InitCompare \/ InitRollback

Spec == Init /\ [][Next]_vars

----------------------------------------------------------------------------
(* Pure functions applied to inputs drawn from bounded sets *)

\* every octet value at every position of three base addresses
ProbeMacs ==
    {[base EXCEPT ![k] = v] : base \in {MacZero, MacGood, MacBroadcast},
                              k \in 1..6, v \in 0..(UINT8_MOD - 1)}

ValidatePrefixes ==
    {<<>>, <<"f">>, <<"0","0">>, PrefixAABB, PrefixXilinx, PrefixUpper, PrefixLong,
     format_mac(MacGood)}

\* the variables of main() stay as at entry while a function is probed
Idle ==
    /\ pc = "probe"
    /\ action = DO_NOTHING
    /\ optcount = 0
    /\ set_mac = <<>>
    /\ gbe_registers = "NULL"
    /\ mdio_registers = "NULL"
    /\ mdio_reg_writes = <<>>
    /\ valid_mac_prefix = <<>>
    /\ eeprom = MacZero
    /\ macbuf = MacZero
    /\ macbuf2 = MacZero
    /\ mdio_ops = <<>>
    /\ opidx = 1
    /\ call = NoCall
    /\ regs = [high |-> 0, low |-> 0, high2 |-> -1, low2 |-> -1]
    /\ gpio = UNREQUESTED
    /\ hw = <<>>
    /\ exit_code = -1
    /\ stderr = <<>>

mainV == <<pc, argsV, resV, macV, mdioV, hwV, exV>>

InitValidateProbe ==
    /\ Idle
    /\ \E prefix \in ValidatePrefixes : \E m \in ProbeMacs :
        probe = [fn |-> "validate", prefix |-> prefix, mac |-> m,
                 done |-> FALSE, ret |-> FALSE]

\* validate_mac_address(prefix, mac, warn)
ProbeValidate ==
    /\ probe.fn = "validate"
    /\ ~probe.done
    /\ probe' = [probe EXCEPT !.done = TRUE,
                              !.ret = validate_mac_address(probe.prefix, probe.mac)]
    /\ UNCHANGED mainV

SpecValidate == InitValidateProbe /\ [][ProbeValidate]_vars

InitRoundTripProbe ==
    /\ Idle
    /\ \E m \in ProbeMacs :
        probe = [fn |-> "roundtrip", mac |-> m, step |-> 0, len |-> 0,
                 text |-> <<>>, ret |-> 0, parsed |-> <<>>]

\* format_mac(mac): len is what snprintf returned, text the string returned
\* (FormatError when format_mac threw)
ProbeFormat ==
    /\ probe.fn = "roundtrip"
    /\ probe.step = 0
    /\ probe' = [probe EXCEPT !.step = 1,
                              !.len = Len(SnprintfMac(probe.mac)),
                              !.text = format_mac(probe.mac)]
    /\ UNCHANGED mainV

\* the sscanf of the store branch applied to the formatted text
ProbeParse ==
    /\ probe.fn = "roundtrip"
    /\ probe.step = 1
    /\ probe.text # FormatError
    /\ LET r == SscanfMac(probe.text) IN
        probe' = [probe EXCEPT !.step = 2, !.ret = r.ret, !.parsed = r.vals]
    /\ UNCHANGED mainV

RoundTripNext == ProbeFormat \/ ProbeParse

SpecRoundTrip == InitRoundTripProbe /\ [][RoundTripNext]_vars

\* pieces of configuration text: the two tokens of CfgTwoOps, a token with
\* upper-case and one-digit hexadecimal fields, a token with a sign, a port
\* and a device above 31 and a 0x prefix, a token cut short, a token with an
\* empty field, a word that is no token
TokA == SubSeq(CfgTwoOps, 1, 13)
TokB == SubSeq(CfgTwoOps, 15, 24)
TokHex == <<"3","1",".","2",":","a","=","F","F">>
TokWide == <<"-","1",".","4","0",":","0","x","1","0","=","1">>
TokCut == SubSeq(CfgTwoOps, 1, 8)
TokEmptyField == <<"0",".","1",":","=","4">>
ConfigPieces == {<<>>, TokA, TokB, TokHex, TokWide, TokCut, TokEmptyField, CfgGarbage}

\* what stands before the first piece and between two pieces
ConfigSeparators == {<<>>, <<" ">>, <<"\t", "\n">>}

\* up to three pieces, with a separator in front and between them
ProbeConfigs ==
    {s0 \o p1 \o s1 \o p2 \o s2 \o p3 :
        s0 \in {<<>>, <<" ">>}, s1 \in ConfigSeparators, s2 \in ConfigSeparators,
        p1 \in ConfigPieces, p2 \in ConfigPieces, p3 \in ConfigPieces}

InitParseMdioProbe ==
    /\ Idle
    /\ \E str \in ProbeConfigs :
        probe = [fn |-> "parse", str |-> str, done |-> FALSE, ops |-> <<>>]

\* parse_mdio_writes(mdio_config_str)
ProbeParseMdioWrites ==
    /\ probe.fn = "parse"
    /\ ~probe.done
    /\ probe' = [probe EXCEPT !.done = TRUE, !.ops = parse_mdio_writes(probe.str)]
    /\ UNCHANGED mainV

SpecParseMdio == InitParseMdioProbe /\ [][ProbeParseMdioWrites]_vars

\* arguments of MDIO_ADDR1: the three opcodes, ports and devices within and
\* beyond 5 bits, and 0xffffffff
Addr1Opcodes == {MDIO_OP_ADDR, MDIO_OP_WR, MDIO_OP_RD}
Addr1Fields == 0..70 \cup {-1}

InitAddr1Probe ==
    /\ Idle
    /\ \E opcode \in Addr1Opcodes : \E port \in Addr1Fields : \E dev \in Addr1Fields :
        probe = [fn |-> "addr1", opcode |-> opcode, port |-> port, dev |-> dev,
                 done |-> FALSE, word |-> 0]

\* MDIO_ADDR1(OPCODE, PORT, DEVICE)
ProbeAddr1 ==
    /\ probe.fn = "addr1"
    /\ ~probe.done
    /\ probe' = [probe EXCEPT !.done = TRUE,
                              !.word = MDIO_ADDR1(probe.opcode, probe.port, probe.dev)]
    /\ UNCHANGED mainV

SpecAddr1 == InitAddr1Probe /\ [][ProbeAddr1]_vars

\* arguments of a call of mdio_phy_write or mdio_phy_read: ports and devices
\* within and beyond 5 bits
CallPorts == {0, 5, 31, 32}
CallDevs == {1, 31, 40}
CallRegs == {32768}
CallBufs == {-1, 16384}

\* main() as at entry, with the MDIO region mapped, at a call of
\* mdio_phy_write or mdio_phy_read
InitMdioCall ==
    /\ pc = "mdio_addr1"
    /\ action = DO_NOTHING
    /\ optcount = 0
    /\ set_mac = <<>>
    /\ gbe_registers = "NULL"
    /\ mdio_registers = "mapped"
    /\ mdio_reg_writes = <<>>
    /\ valid_mac_prefix = <<>>
    /\ eeprom = MacZero
    /\ macbuf = MacZero
    /\ macbuf2 = MacZero
    /\ mdio_ops = <<>>
    /\ opidx = 1
    /\ \E fn \in {"write", "read"} : \E port \in CallPorts : \E dev \in CallDevs :
       \E reg \in CallRegs : \E buf \in CallBufs :
        call = [fn |-> fn, port |-> port, dev |-> dev, reg |-> reg, buf |-> buf,
                i |-> 0, reads |-> 0, busy |-> 0, delays |-> 0, ret |-> 0]
    /\ regs = [high |-> 0, low |-> 0, high2 |-> -1, low2 |-> -1]
    /\ gpio = UNREQUESTED
    /\ hw = <<>>
    /\ exit_code = -1
    /\ stderr = <<>>
    /\ probe = NoProbe

MdioCallNext ==
    \/ MdioAddr1 \/ MdioAddr2 \/ MdioAddrStart \/ MdioAddrPoll \/ MdioAddrCheck
    \/ MdioWrOp \/ MdioWrBuf \/ MdioWrStart \/ MdioWrPoll \/ MdioWrCheck
    \/ MdioRdOp \/ MdioRdStart \/ MdioRdPoll \/ MdioRdCheck \/ MdioRdBuf

SpecMdioCall == InitMdioCall /\ [][MdioCallNext]_vars

----------------------------------------------------------------------------
(* Properties: what they read from the record of hardware accesses *)

\* positions of hw holding an access of this kind
Accesses(dev, op) == {i \in DOMAIN hw : hw[i].dev = dev /\ hw[i].op = op}
AccessesAt(dev, op, off) == {i \in Accesses(dev, op) : hw[i].a = off}
OkAccessesAt(dev, op, off) == {i \in AccessesAt(dev, op, off) : hw[i].ok}

First(S) == CHOOSE i \in S : \A j \in S : i <= j

\* an access that changes hardware: the reset line, a register write, an
\* EEPROM write
IsMutation(e) ==
    \/ e.dev = "gpio"
    \/ e.dev \in {"mdio", "gbe", "i2c"} /\ e.op = "w"

IsMdioAccess(e) == e.dev = "mdio"
IsMdioWrite(e) == e.dev = "mdio" /\ e.op = "w"

\* <<op, register, value>> of each element of a sequence of accesses
RECURSIVE Triples(_)
Triples(q) ==
    IF q = <<>> THEN <<>>
    ELSE <<<<Head(q).op, Head(q).a, Head(q).v>>>> \o Triples(Tail(q))

\* the accesses of one MDIO write of op: both phases, each ended by the status
\* read that shows the busy bit clear
OpAccesses(op) ==
    << <<"w", MDIO_ADDRESS1_OFFSET, MDIO_ADDR1(MDIO_OP_ADDR, op.port, op.dev)>>,
       <<"w", MDIO_ADDRESS2_OFFSET, op.reg>>,
       <<"w", MDIO_CTRL_REG_OFFSET, MdioStartWord>>,
       <<"r", MDIO_CTRL_REG_OFFSET, MDIO_CTRL_ENA_BIT>>,
       <<"w", MDIO_ADDRESS1_OFFSET, MDIO_ADDR1(MDIO_OP_WR, op.port, op.dev)>>,
       <<"w", MDIO_WRITE_BUF_OFFSET, op.val>>,
       <<"w", MDIO_CTRL_REG_OFFSET, MdioStartWord>>,
       <<"r", MDIO_CTRL_REG_OFFSET, MDIO_CTRL_ENA_BIT>> >>

RECURSIVE OpsAccesses(_)
OpsAccesses(ops) ==
    IF ops = <<>> THEN <<>> ELSE OpAccesses(Head(ops)) \o OpsAccesses(Tail(ops))

IsPrefix(a, b) == Len(a) <= Len(b) /\ SubSeq(b, 1, Len(a)) = a

\* the initialize branch has asserted reset
ResetAsserted == \E i \in Accesses("gpio", "set") : hw[i].v = 1 /\ hw[i].ok

\* the loop over the MDIO operations has ended without a failed write
MdioPhaseDone ==
    /\ action = DO_INITIALIZE
    /\ ResetAsserted
    /\ opidx > Len(mdio_ops)
    /\ call = NoCall
    /\ pc \notin {"init_assert", "init_parse"}

\* the branch of the selected action has been entered: the MAC was read
BranchEntered == Len(hw) > 0 /\ hw[1].dev = "i2c" /\ hw[1].op = "r" /\ hw[1].ok

----------------------------------------------------------------------------
(* C1 *)

BothReadBack ==
    /\ OkAccessesAt("gbe", "r", GBE_REG_SYSTEM_MAC_HIGH) # {}
    /\ OkAccessesAt("gbe", "r", GBE_REG_SYSTEM_MAC_LOW) # {}

ReadBack(off) == hw[First(OkAccessesAt("gbe", "r", off))].v
Programmed(off) == hw[First(OkAccessesAt("gbe", "w", off))].v

ReadBackAgrees ==
    /\ ReadBack(GBE_REG_SYSTEM_MAC_HIGH) = Programmed(GBE_REG_USR_MAC_HIGH)
    /\ ReadBack(GBE_REG_SYSTEM_MAC_LOW) % 65536 = Programmed(GBE_REG_USR_MAC_LOW) % 65536

\* C1: once both system-MAC registers have been read back after the release,
\* the run ends in success exactly when the high readback equals the
\* programmed high word and the low 16 bits of the low readback equal those of
\* the programmed low word; otherwise the last thing done is an attempt to
\* drive the reset line to 1, and the run ends in failure.
C1_VerifyDecides ==
    (pc = "exit" /\ BothReadBack) =>
        IF ReadBackAgrees
        THEN exit_code = 0
        ELSE /\ exit_code = 1
             /\ hw[Len(hw)].dev = "gpio" /\ hw[Len(hw)].op = "set" /\ hw[Len(hw)].v = 1

\* a successful run whose low readback differs from the programmed low word in
\* its upper 16 bits only
C1_Witness ==
    /\ pc = "exit" /\ BothReadBack /\ exit_code = 0
    /\ ReadBack(GBE_REG_SYSTEM_MAC_LOW) # Programmed(GBE_REG_USR_MAC_LOW)

----------------------------------------------------------------------------
(* C2 *)

\* C2 as stated: USR_MAC_HIGH holds octets 0,1,2,3 from its most significant
\* byte to its least significant one, USR_MAC_LOW holds (octet 4 << 8) | octet
\* 5; aa:bb:cc:dd:ee:ff programs 0xaabbccdd and 0x0000eeff.
C2_BigEndianWords ==
    /\ \A i \in AccessesAt("gbe", "w", GBE_REG_USR_MAC_HIGH) :
        /\ ByteOf(hw[i].v, 24) = eeprom[1] /\ ByteOf(hw[i].v, 16) = eeprom[2]
        /\ ByteOf(hw[i].v, 8) = eeprom[3] /\ ByteOf(hw[i].v, 0) = eeprom[4]
        /\ eeprom = MacGood => hw[i].v = FromBytes(221, 204, 187, 170)
    /\ \A i \in AccessesAt("gbe", "w", GBE_REG_USR_MAC_LOW) :
        /\ hw[i].v = eeprom[5] * 256 + eeprom[6]
        /\ eeprom = MacGood => hw[i].v = 61183

\* C2, amended: USR_MAC_HIGH holds octets 0,1,2,3 from its least significant
\* byte to its most significant one, USR_MAC_LOW holds (octet 5 << 8) | octet
\* 4 with upper 16 bits zero; aa:bb:cc:dd:ee:ff programs 0xddccbbaa and
\* 0x0000ffee.
C2_LittleEndianWords ==
    /\ \A i \in AccessesAt("gbe", "w", GBE_REG_USR_MAC_HIGH) :
        /\ ByteOf(hw[i].v, 0) = eeprom[1] /\ ByteOf(hw[i].v, 8) = eeprom[2]
        /\ ByteOf(hw[i].v, 16) = eeprom[3] /\ ByteOf(hw[i].v, 24) = eeprom[4]
        /\ eeprom = MacGood => hw[i].v = FromBytes(170, 187, 204, 221)
    /\ \A i \in AccessesAt("gbe", "w", GBE_REG_USR_MAC_LOW) :
        /\ hw[i].v = eeprom[6] * 256 + eeprom[5]
        /\ eeprom = MacGood => hw[i].v = 65518

\* both words of aa:bb:cc:dd:ee:ff have been written
C2_Witness ==
    /\ eeprom = MacGood
    /\ OkAccessesAt("gbe", "w", GBE_REG_USR_MAC_HIGH) # {}
    /\ OkAccessesAt("gbe", "w", GBE_REG_USR_MAC_LOW) # {}

----------------------------------------------------------------------------
(* C3 *)

StartsWith(str, prefix) ==
    Len(prefix) <= Len(str) /\ SubSeq(str, 1, Len(prefix)) = prefix

\* C3: validate_mac_address returns true for every address when the prefix is
\* empty; otherwise it returns false exactly for the all-zero address, the
\* all-ones address, an address with the low bit of octet 0 set, and an
\* address whose formatted string does not start with the prefix.
C3_ValidateExact ==
    (probe.fn = "validate" /\ probe.done) =>
        probe.ret = IF probe.prefix = <<>> THEN TRUE
                    ELSE ~ \/ probe.mac = MacZero
                           \/ probe.mac = MacBroadcast
                           \/ probe.mac[1] % 2 = 1
                           \/ ~StartsWith(format_mac(probe.mac), probe.prefix)

\* fb:ff:ff:ff:ff:ff, which starts with the prefix "f", has been rejected
C3_Witness ==
    /\ probe.fn = "validate" /\ probe.done /\ ~probe.ret
    /\ probe.prefix = <<"f">>
    /\ probe.mac = [MacBroadcast EXCEPT ![1] = 251]

----------------------------------------------------------------------------
(* C4 *)

MdioWriteFailed == call.fn = "write" /\ call.ret < 0

\* C4: when an MDIO write has failed, the run is about to end or has ended in
\* failure, the MDIO registers written are those of the operations up to the
\* failed one, no core register was written and the reset line was not
\* released; and the next step ends the run with exit code 1 and no further
\* hardware access.
C4_MdioFailureAborts ==
    /\ [](MdioWriteFailed =>
            /\ pc \in {"mdio_ret", "exit"}
            /\ pc = "exit" => exit_code = 1
            /\ IsPrefix(Triples(SelectSeq(hw, IsMdioAccess)),
                        OpsAccesses(SubSeq(mdio_ops, 1, opidx)))
            /\ Accesses("gbe", "w") = {}
            /\ \A i \in Accesses("gpio", "set") : hw[i].v # 0)
    /\ [][(pc = "mdio_ret" /\ MdioWriteFailed) =>
            (pc' = "exit" /\ exit_code' = 1 /\ hw' = hw)]_vars

\* the first of two operations timed out, and the run has ended
C4_Witness ==
    /\ pc = "exit" /\ MdioWriteFailed
    /\ opidx = 1 /\ Len(mdio_ops) = 2
    /\ call.busy = MDIO_STATUS_POLL_LIMIT

----------------------------------------------------------------------------
(* C5 *)

PollOver == pc \in {"mdio_addr_check", "mdio_wr_check"}

\* C5: a busy-poll makes at most MDIO_STATUS_POLL_LIMIT status reads; it ends
\* either with all 100 reads showing the busy bit or with the first read that
\* shows it clear; it is a timeout exactly in the first case; with the bit
\* clear on the first read there is one read and no poll delay.
C5_PollBudget ==
    /\ [](/\ call.reads <= MDIO_STATUS_POLL_LIMIT
          /\ PollOver =>
                \/ call.busy = MDIO_STATUS_POLL_LIMIT /\ call.reads = MDIO_STATUS_POLL_LIMIT
                \/ call.reads = call.busy + 1
          /\ (PollOver /\ call.busy = 0) => (call.reads = 1 /\ call.delays = 0))
    /\ [][PollOver =>
            ((pc' = "mdio_ret" /\ call'.ret < 0)
                <=> (call.busy = MDIO_STATUS_POLL_LIMIT /\ call.reads = call.busy))]_vars

\* a busy-poll ended by the 100th read, which showed the bit clear
C5_Witness ==
    /\ pc = "mdio_wr_check"
    /\ call.reads = MDIO_STATUS_POLL_LIMIT
    /\ call.busy = MDIO_STATUS_POLL_LIMIT - 1

----------------------------------------------------------------------------
(* C6 *)

\* C6: when the loop over the MDIO operations has ended without a failed
\* write, the MDIO accesses made are those of the parsed operations, each once
\* and in order, each phase ended by its completed poll, all of them succeeded,
\* and all of them before any access to a core register.
C6_MdioInOrder ==
    MdioPhaseDone =>
        /\ Triples(SelectSeq(hw, IsMdioAccess)) = OpsAccesses(mdio_ops)
        /\ \A i \in DOMAIN hw : hw[i].dev = "mdio" => hw[i].ok
        /\ \A i, j \in DOMAIN hw : (hw[i].dev = "mdio" /\ hw[j].dev = "gbe") => i < j

\* a successful initialization with two MDIO operations
C6_Witness ==
    /\ pc = "exit" /\ exit_code = 0 /\ MdioPhaseDone
    /\ Len(mdio_ops) = 2

----------------------------------------------------------------------------
(* C7 *)

\* C7: the exit code is 0 or 1; it is 0 only when both register regions that
\* are needed were mapped and no failure was diagnosed, and it is 1 whenever a
\* failure was diagnosed.
C7_ExitCode ==
    pc = "exit" =>
        /\ exit_code \in {0, 1}
        /\ exit_code = 0 =>
            /\ gbe_registers = "mapped"
            /\ Len(mdio_reg_writes) # 0 => mdio_registers = "mapped"
            /\ stderr = <<>>
        /\ stderr # <<>> => exit_code = 1

----------------------------------------------------------------------------
(* C8 *)

ValidationAbort ==
    /\ pc = "exit"
    /\ \E k \in DOMAIN stderr :
        stderr[k] \in {"MAC address is not valid", "Unable to parse input MAC address."}

\* C8 as stated: under every action, a run that aborts on a failed validation
\* or an unparsable input MAC has made no access that changes hardware.
C8_AbortBeforeMutation ==
    ValidationAbort => \A i \in DOMAIN hw : ~IsMutation(hw[i])

\* C8, amended: under query and store such a run has made no access that
\* changes hardware; under initialize it has requested the reset line and
\* driven it asserted and made the MDIO writes of all operations, and has
\* written no core register, written no EEPROM and not released the reset line.
C8_AbortPoint ==
    ValidationAbort =>
        IF action = DO_INITIALIZE
        THEN /\ \E i \in Accesses("gpio", "request") : hw[i].v = 1 /\ hw[i].ok
             /\ ResetAsserted
             /\ Triples(SelectSeq(hw, IsMdioAccess)) = OpsAccesses(mdio_ops)
             /\ Accesses("gbe", "w") = {}
             /\ Accesses("i2c", "w") = {}
             /\ \A i \in Accesses("gpio", "set") : hw[i].v # 0
        ELSE \A i \in DOMAIN hw : ~IsMutation(hw[i])

\* an initialization that aborted on validation after writing MDIO registers
C8_Witness ==
    /\ ValidationAbort
    /\ action = DO_INITIALIZE
    /\ Accesses("mdio", "w") # {}

----------------------------------------------------------------------------
(* C9 *)

\* C9: the EEPROM is written at most once, only under store, and with the
\* bytes the input MAC parses to, which pass validation; a run that entered
\* the store branch ends in success exactly when the write transferred 6
\* bytes and a later read returned 6 bytes equal to those written, and in
\* failure otherwise.
C9_StoreVerified ==
    /\ \A i \in Accesses("i2c", "w") :
        /\ action = DO_STORE
        /\ SscanfMac(set_mac).ret = 6
        /\ hw[i].v = SscanfMac(set_mac).vals
        /\ validate_mac_address(valid_mac_prefix, hw[i].v)
    /\ Cardinality(Accesses("i2c", "w")) <= 1
    /\ (pc = "exit" /\ action = DO_STORE /\ BranchEntered) =>
        /\ exit_code \in {0, 1}
        /\ exit_code = 0 <=>
            \E w \in Accesses("i2c", "w") : \E r \in Accesses("i2c", "r") :
                /\ w < r
                /\ hw[w].ok /\ hw[r].ok
                /\ \A k \in 1..6 : hw[r].v[k] = hw[w].v[k]

\* a store whose write and re-read both transferred 6 bytes, which differ
C9_Witness ==
    /\ pc = "exit" /\ action = DO_STORE /\ exit_code = 1
    /\ \E w \in Accesses("i2c", "w") : \E r \in Accesses("i2c", "r") :
        w < r /\ hw[w].ok /\ hw[r].ok /\ hw[r].v # hw[w].v

----------------------------------------------------------------------------
(* C10 *)

\* C10: format_mac produces exactly 17 characters and does not throw, and the
\* sscanf of the store branch turns them back into the 6 octets formatted.
C10_RoundTrip ==
    /\ (probe.fn = "roundtrip" /\ probe.step >= 1) =>
        (probe.len = 17 /\ Len(probe.text) = 17 /\ probe.text # FormatError)
    /\ (probe.fn = "roundtrip" /\ probe.step = 2) =>
        (probe.ret = 6 /\ probe.parsed = probe.mac)

\* an address with an octet below 0x10 has gone through format and parse
C10_Witness ==
    /\ probe.fn = "roundtrip" /\ probe.step = 2
    /\ probe.mac[1] = 10
    /\ probe.parsed[1] = 10

----------------------------------------------------------------------------
(* C11 *)

HasChar(s, p, c) == p <= Len(s) /\ s[p] = c

\* a token port.device:reg=val at position p of s: port and device numbers in
\* decimal, reg and val numbers in hexadecimal; next is the position of the
\* text after the token and the white space that follows it
TokenAt(s, p) ==
    LET port == ScanInt(s, p, 10, 32)
        dev == ScanInt(s, port.pos + 1, 10, 32)
        reg == ScanInt(s, dev.pos + 1, 16, 32)
        val == ScanInt(s, reg.pos + 1, 16, 32)
    IN  [ok |-> /\ port.st = "ok" /\ HasChar(s, port.pos, ".")
                /\ dev.st = "ok" /\ HasChar(s, dev.pos, ":")
                /\ reg.st = "ok" /\ HasChar(s, reg.pos, "=")
                /\ val.st = "ok",
         op |-> [port |-> port.val, dev |-> dev.val, reg |-> reg.val, val |-> val.val],
         next |-> SkipWs(s, val.pos)]

RECURSIVE WellFormedRun(_, _, _)
\* the operations of the longest run of well-formed tokens of s from position p
WellFormedRun(s, p, ops) ==
    IF p > Len(s) \/ ~TokenAt(s, p).ok THEN ops
    ELSE WellFormedRun(s, TokenAt(s, p).next, Append(ops, TokenAt(s, p).op))

\* C11: parse_mdio_writes returns the operations of the longest leading run of
\* well-formed tokens of the configuration string, in order, and nothing of
\* what follows the first unparsable token; "0.1:8000=4000 0.1:8001=0" gives
\* the two operations (0,1,0x8000,0x4000), (0,1,0x8001,0x0) and
\* "0.1:8000=4000 garbage" gives the first of them alone.
C11_LeadingRun ==
    (probe.fn = "parse" /\ probe.done) =>
        /\ probe.ops = WellFormedRun(probe.str, 1, <<>>)
        /\ probe.str = CfgTwoOps =>
            probe.ops = <<[port |-> 0, dev |-> 1, reg |-> 32768, val |-> 16384],
                          [port |-> 0, dev |-> 1, reg |-> 32769, val |-> 0]>>
        /\ probe.str = CfgTruncated =>
            probe.ops = <<[port |-> 0, dev |-> 1, reg |-> 32768, val |-> 16384]>>

\* a well-formed token that follows an unparsable one has been dropped
C11_Witness ==
    /\ probe.fn = "parse" /\ probe.done
    /\ probe.str = TokA \o <<" ">> \o CfgGarbage \o <<" ">> \o TokB
    /\ Len(probe.ops) = 1

----------------------------------------------------------------------------
(* C12 *)

ShortReads == {i \in Accesses("i2c", "r") : ~hw[i].ok}

\* C12: an EEPROM read that did not return 6 bytes is the last thing the run
\* does: the run has ended with exit code 1, and no step follows the end of a
\* run, so the bytes it brought are used by nothing; the initial read is the
\* first hardware access of the run under every action, so when it is the one
\* that failed no reset-line, register or EEPROM access was made at all.
C12_ShortReadFails ==
    /\ [](\A i \in ShortReads :
            /\ i = Len(hw)
            /\ pc = "exit" /\ exit_code = 1
            /\ hw[i].v # eeprom)
    /\ [](\A i \in Accesses("i2c", "r") : i = First(Accesses("i2c", "r")) => i = 1)
    /\ [][pc # "exit"]_vars

\* an initialization whose initial read brought 3 bytes, now in macbuf
C12_Witness ==
    /\ pc = "exit" /\ action = DO_INITIALIZE
    /\ Len(hw) = 1 /\ 1 \in ShortReads /\ Len(hw[1].v) = 3
    /\ SubSeq(macbuf, 1, 3) = hw[1].v

----------------------------------------------------------------------------
(* C13 *)

ResetAcquired == \E i \in Accesses("gpio", "request") : hw[i].ok

\* an initialization that ended in failure after the reset line was acquired,
\* every drive of the line having succeeded
FailedInitialization ==
    /\ pc = "exit" /\ action = DO_INITIALIZE /\ exit_code = 1
    /\ ResetAcquired
    /\ \A i \in Accesses("gpio", "set") : hw[i].ok

\* C13: after a failed initialization in which every drive of the reset line
\* succeeded, the value last driven on the line is 1 (asserted): the core is
\* not left released.
C13_FailedRunInReset ==
    FailedInitialization =>
        /\ gpio = 1
        /\ \A i \in Accesses("gpio", "set") :
            hw[i].v = 0 => \E j \in Accesses("gpio", "set") : j > i /\ hw[j].v = 1

----------------------------------------------------------------------------
(* C14 *)

\* the steps of the initialization sequence outside the MDIO writes: accesses
\* to the reset line and to the core registers, and settle intervals
IsInitStep(e) ==
    \/ e.dev \in {"gpio", "gbe"}
    \/ e.dev = "sleep" /\ e.v = GBE_RST_SETTLE_US

StepKind(e) ==
    CASE e.dev = "sleep" -> "settle"
      [] e.dev = "gpio" /\ e.op = "request" /\ e.v = 1 -> "request asserted"
      [] e.dev = "gpio" /\ e.op = "set" /\ e.v = 1 -> "assert"
      [] e.dev = "gpio" /\ e.op = "set" /\ e.v = 0 -> "release"
      [] e.dev = "gbe" /\ e.op = "w" /\ e.a = GBE_REG_USR_MAC_HIGH -> "write USR_MAC_HIGH"
      [] e.dev = "gbe" /\ e.op = "w" /\ e.a = GBE_REG_USR_MAC_LOW -> "write USR_MAC_LOW"
      [] e.dev = "gbe" /\ e.op = "w" /\ e.a = GBE_REG_USR_MAC_CFG /\ e.v = 1 -> "write 1 to USR_MAC_CFG"
      [] e.dev = "gbe" /\ e.op = "r" /\ e.a = GBE_REG_SYSTEM_MAC_HIGH -> "read SYSTEM_MAC_HIGH"
      [] e.dev = "gbe" /\ e.op = "r" /\ e.a = GBE_REG_SYSTEM_MAC_LOW -> "read SYSTEM_MAC_LOW"
      [] OTHER -> "other"

InitSteps == SelectSeq(hw, IsInitStep)
InitStepKinds == [i \in 1..Len(InitSteps) |-> StepKind(InitSteps[i])]

\* the order of the steps, and the steps of the rollback after them
StepOrder ==
    <<"request asserted", "assert", "settle",
      "write USR_MAC_HIGH", "write USR_MAC_LOW", "settle", "write 1 to USR_MAC_CFG",
      "release", "settle", "read SYSTEM_MAC_HIGH", "read SYSTEM_MAC_LOW",
      "settle", "read SYSTEM_MAC_LOW", "assert">>

\* C14: in an initialization, the steps made so far are the first steps of
\* the order above, every access but the last one made has succeeded, every
\* MDIO access and every core register access comes after
\* the settle interval that follows the assertion of reset, the core
\* registers are written only when the MDIO writes of all operations have
\* been made, USR_MAC_CFG is written only after both MAC words, and reset is
\* released only after USR_MAC_CFG was written.
C14_StepOrder ==
    action = DO_INITIALIZE =>
        /\ Len(InitSteps) <= Len(StepOrder)
        /\ \A k \in 1..Len(InitSteps) : StepKind(InitSteps[k]) = StepOrder[k]
        /\ \A i \in 1..(Len(hw) - 1) : hw[i].ok
        /\ \A i \in DOMAIN hw : hw[i].dev \in {"mdio", "gbe"} =>
            \E j \in Accesses("gpio", "set") :
                /\ j + 1 < i
                /\ hw[j].v = 1 /\ hw[j].ok
                /\ hw[j + 1] = Usleep(GBE_RST_SETTLE_US)
        /\ Accesses("gbe", "w") # {} =>
            Triples(SelectSeq(hw, IsMdioAccess)) = OpsAccesses(mdio_ops)
        /\ \A i \in AccessesAt("gbe", "w", GBE_REG_USR_MAC_CFG) :
            /\ \E j \in OkAccessesAt("gbe", "w", GBE_REG_USR_MAC_HIGH) : j < i
            /\ \E j \in OkAccessesAt("gbe", "w", GBE_REG_USR_MAC_LOW) : j < i
        /\ \A i \in Accesses("gpio", "set") : hw[i].v = 0 =>
            \E j \in OkAccessesAt("gbe", "w", GBE_REG_USR_MAC_CFG) : j < i /\ hw[j].v = 1

\* every step of the order has been made, after one MDIO write at least
C14_Witness ==
    /\ pc = "exit"
    /\ Len(InitSteps) = Len(StepOrder)
    /\ Accesses("mdio", "w") # {}

----------------------------------------------------------------------------
(* C15 *)

\* initialization is at the validation of the EEPROM MAC, which fails
InitValidationFails ==
    pc = "init_validate" /\ ~validate_mac_address(valid_mac_prefix, macbuf)

LeftInReset ==
    /\ ResetAsserted
    /\ \A i \in Accesses("gpio", "set") : hw[i].v # 0
    /\ Accesses("gbe", "w") = {}

\* C15: when the EEPROM MAC fails validation during initialization, the next
\* step ends the run with exit code 1 and makes no hardware access; the reset
\* line is asserted and was never driven to released, and no core register
\* was written; and a core register is written or the line released only for
\* a MAC that passes validation.
C15_InvalidMacLeavesReset ==
    /\ [](InitValidationFails => LeftInReset)
    /\ [][InitValidationFails =>
            (pc' = "exit" /\ exit_code' = 1 /\ hw' = hw /\ LeftInReset')]_vars
    /\ []((action = DO_INITIALIZE /\ ResetAsserted /\ ~LeftInReset) =>
            validate_mac_address(valid_mac_prefix, macbuf))

\* an initialization ended by the validation of a multicast address, after
\* its MDIO writes
C15_Witness ==
    /\ pc = "exit" /\ action = DO_INITIALIZE /\ exit_code = 1
    /\ stderr = <<"MAC address is not valid", "Leaving 10GbE core in reset.">>
    /\ macbuf = MacMulticast
    /\ LeftInReset
    /\ Len(mdio_ops) = 2

----------------------------------------------------------------------------
(* C16 *)

\* the address phase of a call: opcode/port/device word, register address,
\* start request, and the status read that shows the busy bit clear
AddressPhase(c) ==
    << <<"w", MDIO_ADDRESS1_OFFSET, MDIO_ADDR1(MDIO_OP_ADDR, c.port, c.dev)>>,
       <<"w", MDIO_ADDRESS2_OFFSET, c.reg>>,
       <<"w", MDIO_CTRL_REG_OFFSET, MdioStartWord>>,
       <<"r", MDIO_CTRL_REG_OFFSET, MDIO_CTRL_ENA_BIT>> >>

\* the data phase of a call, and for a read the read of the read buffer
DataPhase(c) ==
    IF c.fn = "read"
    THEN << <<"w", MDIO_ADDRESS1_OFFSET, MDIO_ADDR1(MDIO_OP_RD, c.port, c.dev)>>,
            <<"w", MDIO_CTRL_REG_OFFSET, MdioStartWord>>,
            <<"r", MDIO_CTRL_REG_OFFSET, MDIO_CTRL_ENA_BIT>>,
            <<"r", MDIO_READ_BUF_OFFSET, c.buf>> >>
    ELSE << <<"w", MDIO_ADDRESS1_OFFSET, MDIO_ADDR1(MDIO_OP_WR, c.port, c.dev)>>,
            <<"w", MDIO_WRITE_BUF_OFFSET, c.buf>>,
            <<"w", MDIO_CTRL_REG_OFFSET, MdioStartWord>>,
            <<"r", MDIO_CTRL_REG_OFFSET, MDIO_CTRL_ENA_BIT>> >>

PollTimedOut ==
    /\ pc \in {"mdio_addr_check", "mdio_wr_check", "mdio_rd_check"}
    /\ call.busy = MDIO_STATUS_POLL_LIMIT

\* C16: the MDIO accesses of a call of mdio_phy_write or mdio_phy_read are the
\* first accesses of: the address phase ended by the status read that shows
\* the busy bit clear, then the data phase with its start request after its
\* opcode word and payload, ended likewise, then for a read the read of the
\* read buffer; an access is made only when all accesses before it succeeded,
\* a failed access ends the call with -1, and so does a poll that timed out,
\* with no further access.
C16_TwoPhases ==
    /\ [](/\ IsPrefix(Triples(SelectSeq(hw, IsMdioAccess)),
                      AddressPhase(call) \o DataPhase(call))
          /\ \A i \in 1..(Len(hw) - 1) : hw[i].ok
          /\ (hw # <<>> /\ ~hw[Len(hw)].ok) => (pc = "mdio_ret" /\ call.ret < 0))
    /\ [][PollTimedOut => (pc' = "mdio_ret" /\ call'.ret < 0 /\ hw' = hw)]_vars

\* a read whose data-phase poll saw the busy bit clear on its 100th status
\* read, and which then read the read buffer
C16_Witness ==
    /\ pc = "mdio_ret" /\ call.fn = "read" /\ call.ret = 0
    /\ call.busy = MDIO_STATUS_POLL_LIMIT - 1
    /\ hw[Len(hw)].a = MDIO_READ_BUF_OFFSET /\ hw[Len(hw)].v = 16384
    /\ call.buf = 16384

----------------------------------------------------------------------------
(* C17 *)

\* the port 32, device 40 token is accepted as it stands
TokBeyond5Bits == <<"3","2",".","4","0",":","8","0","0","0","=","4","0","0","0">>

\* C17: the address word is (opcode mod 4) * 1024 + (port mod 32) * 32 +
\* (device mod 32); for port and device in 0..31 the three fields are read
\* back from the word, so that different arguments give different words; a
\* port or device above 31 gives the word of its value modulo 32, and
\* parse_mdio_writes passes such a value on as it is.
C17_AddressWord ==
    (probe.fn = "addr1" /\ probe.done) =>
        /\ probe.word = (probe.opcode % 4) * 1024 + (probe.port % 32) * 32
                        + (probe.dev % 32)
        /\ (probe.port \in 0..31 /\ probe.dev \in 0..31) =>
            /\ probe.word \div 1024 = probe.opcode
            /\ (probe.word \div 32) % 32 = probe.port
            /\ probe.word % 32 = probe.dev
        /\ probe.word = MDIO_ADDR1(probe.opcode, probe.port % 32, probe.dev % 32)
        /\ (probe.port = 32 /\ probe.dev = 40) =>
            /\ parse_mdio_writes(TokBeyond5Bits)
                = <<MDIO_Operation(probe.port, probe.dev, 32768, 16384)>>
            /\ probe.word = MDIO_ADDR1(probe.opcode, 0, 8)

\* the word of port 32 has been computed: it is the word of port 0
C17_Witness ==
    /\ probe.fn = "addr1" /\ probe.done
    /\ probe.opcode = MDIO_OP_WR /\ probe.port = 32 /\ probe.dev = 1
    /\ probe.word = 1025

----------------------------------------------------------------------------
(* C18 *)

\* the run is past the mapping of the register regions
PastMapping == pc \notin {"getopt", "map_gbe", "map_mdio", "exit"}

\* C18: an MDIO access is made, and mdio_phy_write is called, only with the
\* MDIO region mapped; past the mapping step the region is mapped exactly
\* when mdio_reg_writes is not empty; the list of parsed operations is not
\* empty only when that string is not empty; and a run that ended with the
\* string not empty and the region not mapped has made no hardware access.
C18_MdioRegionMapped ==
    /\ \A i \in DOMAIN hw : hw[i].dev = "mdio" => mdio_registers = "mapped"
    /\ call.fn = "write" => mdio_registers = "mapped"
    /\ PastMapping => (mdio_registers = "mapped" <=> Len(mdio_reg_writes) # 0)
    /\ mdio_registers = "mapped" => Len(mdio_reg_writes) # 0
    /\ Len(mdio_ops) # 0 => Len(mdio_reg_writes) # 0
    /\ (Len(mdio_reg_writes) # 0 /\ mdio_registers # "mapped") =>
        (pc = "exit" /\ hw = <<>> /\ stderr = <<"Mapping MDIO UIO device">>)

\* mdio_phy_write has been called for the second operation of a configuration
C18_Witness ==
    /\ pc = "mdio_addr1" /\ call.fn = "write"
    /\ opidx = 2
    /\ mdio_registers = "mapped"

----------------------------------------------------------------------------
(* C19 *)

\* C19: under query and store the accesses made are EEPROM accesses and the
\* delay of store only: the reset line is not requested or driven and no core
\* or MDIO register is read or written; query and initialize make no EEPROM
\* write, store makes one at most.
C19_Frame ==
    /\ action \in {DO_QUERY, DO_STORE} =>
        /\ \A i \in DOMAIN hw : hw[i].dev \notin {"gpio", "gbe", "mdio"}
        /\ gpio = UNREQUESTED
        /\ regs = [high |-> 0, low |-> 0, high2 |-> -1, low2 |-> -1]
    /\ action \in {DO_QUERY, DO_INITIALIZE} => Accesses("i2c", "w") = {}
    /\ action = DO_STORE => Cardinality(Accesses("i2c", "w")) <= 1
    /\ action \in {DO_QUERY, DO_INITIALIZE} => eeprom \in MacSamples

\* a store that succeeded: one EEPROM write, the delay, one more EEPROM read
C19_Witness ==
    /\ pc = "exit" /\ exit_code = 0 /\ action = DO_STORE
    /\ Cardinality(Accesses("i2c", "w")) = 1
    /\ Len(hw) = 4

----------------------------------------------------------------------------
(* C20 *)

\* the place of a statement in main(), counted from the end
Stage ==
    CASE pc = "getopt" -> 30 [] pc = "map_gbe" -> 29 [] pc = "map_mdio" -> 28
      [] pc = "open_gpio" -> 27 [] pc = "open_eeprom" -> 26 [] pc = "read_mac" -> 25
      [] pc = "dispatch" -> 24 [] pc = "store_validate" -> 23
      [] pc = "store_write" -> 22 [] pc = "store_readback" -> 21
      [] pc = "store_compare" -> 20 [] pc = "init_assert" -> 19
      [] pc = "init_parse" -> 18 [] pc = "init_validate" -> 16
      [] pc = "init_write_high" -> 15 [] pc = "init_write_low" -> 14
      [] pc = "init_write_cfg" -> 13 [] pc = "init_release" -> 12
      [] pc = "init_read_high" -> 11 [] pc = "init_read_low" -> 10
      [] pc = "init_compare" -> 9 [] pc = "init_rollback" -> 8
      [] pc \in {"exit", "terminate"} -> 0
      [] OTHER -> 17

\* the place of a statement in the body of the loop over the MDIO operations,
\* counted from the end; a busy-poll counts the iterations it has left
InOperation ==
    CASE pc = "mdio_loop" -> 900
      [] pc = "mdio_addr1" -> 800 [] pc = "mdio_addr2" -> 790
      [] pc = "mdio_addr_start" -> 780
      [] pc = "mdio_addr_poll" -> 600 + (MDIO_STATUS_POLL_LIMIT - call.i)
      [] pc = "mdio_addr_check" -> 600
      [] pc = "mdio_wr_op" -> 500 [] pc = "mdio_wr_buf" -> 490
      [] pc = "mdio_wr_start" -> 480
      [] pc = "mdio_wr_poll" -> 300 + (MDIO_STATUS_POLL_LIMIT - call.i)
      [] pc = "mdio_wr_check" -> 300
      [] pc = "mdio_ret" -> 100
      [] OTHER -> 0

\* what is left of the run: statements of main(), then options (in the option
\* loop) or operations and statements of mdio_phy_write (in the MDIO loop)
Rank ==
    Stage * 100000
    + (IF pc = "getopt" THEN MaxArgs - optcount ELSE 0)
    + (IF Stage = 17 THEN (Len(mdio_ops) + 1 - opidx) * 1000 + InOperation ELSE 0)

\* every accepted token moves the position of parse_mdio_writes forward, and
\* not beyond the end of the string
ParseAdvances(str) ==
    \A i \in 0..(Len(str) - 1) :
        LET r == Sscanf(Substr(str, i, Len(str)), MdioScanFormat) IN
        r.ret = 4 => (r.n > 0 /\ i + r.n <= Len(str))

\* C20: every run ends: each step leaves less of the run to do and what is
\* left is never negative, so that no statement is executed again once the
\* run is past it, a busy-poll included; a busy-poll makes at most 100 status
\* reads (two busy-polls, 200 status reads, for an operation); the position of
\* parse_mdio_writes moves forward on every accepted token; and the run is
\* never at a statement it cannot leave: format_mac has not thrown, a
\* busy-poll is at its status read only with an iteration left, and the MDIO
\* loop is at an operation of the list or at its end.
C20_Terminates ==
    /\ [][Rank' < Rank]_vars
    /\ [](/\ Rank >= 0
          /\ call.reads <= MDIO_STATUS_POLL_LIMIT
          /\ call.i <= MDIO_STATUS_POLL_LIMIT
          /\ pc = "init_parse" => ParseAdvances(mdio_reg_writes)
          /\ pc # "terminate"
          /\ pc \in {"mdio_addr_poll", "mdio_wr_poll"} => PollContinues(call.i)
          /\ pc = "mdio_loop" => opidx \in 1..(Len(mdio_ops) + 1))

\* a run ended by the time-out of the second operation of a configuration
C20_Witness ==
    /\ pc = "exit" /\ exit_code = 1
    /\ opidx = 2 /\ call.fn = "write"
    /\ call.i = MDIO_STATUS_POLL_LIMIT /\ call.reads = MDIO_STATUS_POLL_LIMIT

====
